---- MODULE Spec2Model ----
(***************************************************************************)
(* Model of the client-side conversion utilities of PDFConverter:          *)
(*   src/src/utils/pdfProcessor.ts  (class PDFProcessor)                   *)
(*   src/unnamed/part_000           (class DocumentProcessor)              *)
(*                                                                         *)
(* A PDF document is the sequence of its pages, a page is its content.     *)
(* The collaborating libraries (pdf-lib, jsPDF, JSZip, the DOM) are        *)
(* modelled by what the calls made by the source do to that data.          *)
(*                                                                         *)
(* Three specifications share the variables:                               *)
(*   Spec        the data operations (deletePages, mergePdfs, splitPdf,    *)
(*               imagesToPdf, downloadAsZip), one call at a time;          *)
(*   SpecErrors  the control flow of every operation when one of its       *)
(*               library calls fails;                                      *)
(*   SpecHtml    htmlToPdf: frames, load/error events and the load         *)
(*               handlers, with several calls in flight.                   *)
(***************************************************************************)
EXTENDS Integers, Sequences, FiniteSets, TLC

VARIABLES
    call,          \* the operation in progress and the arguments it was given
    outcome,       \* how the promise returned by that operation settled
    callerArray,   \* the caller's pagesToDelete array after the call (sorted in place)
    consoleLog,    \* what the call wrote to console.error
    saved,         \* the saveAs() calls made: <<[blob, name]>>
    body,          \* htmlToPdf: the frames attached to document.body
    promise,       \* htmlToPdf: the promise each call returned
    handlers,      \* htmlToPdf: load handlers suspended at `await html2canvas`
    removeThrew    \* htmlToPdf: removeChild was called on a frame not in body

vars == <<call, outcome, callerArray, consoleLog, saved,
          body, promise, handlers, removeThrew>>

oneShotVars == <<call, outcome, callerArray, consoleLog, saved>>
htmlVars == <<body, promise, handlers, removeThrew>>

(***************************************************************************)
(* Bounds of the model.                                                    *)
(***************************************************************************)
MaxPages == 3      \* pages of an input PDF: 0..MaxPages
MaxFiles == 2      \* files passed to mergePdfs: 0..MaxFiles
MaxDelete == 3     \* length of pagesToDelete: 0..MaxDelete
MaxImages == 2     \* images passed to imagesToPdf: 0..MaxImages
MaxDim == 3        \* pixel width and height of an image: 1..MaxDim
MaxEntries == 3    \* entries passed to downloadAsZip: 0..MaxEntries
MaxCalls == 2      \* htmlToPdf calls in flight
MaxHandlers == 2   \* load handlers of one frame suspended at the same time

PageContents == {"p", "q"}

\* Every valid PDF of at most MaxPages pages.
Docs == UNION {[1..n -> PageContents] : n \in 0..MaxPages}

\* Sequences over S of length 0..n.
SeqUpTo(S, n) == UNION {[1..k -> S] : k \in 0..n}

Idle == [op |-> "none"]
NoOutcome == [state |-> "none"]
Resolved(v) == [state |-> "resolved", value |-> v]
Rejected(e) == [state |-> "rejected", value |-> e]

(***************************************************************************)
(* pdf-lib, as the source uses it.                                         *)
(***************************************************************************)
\* The page PDFDocument.save() adds to a document without pages.
BlankPage == "blank"

\* PDFDocument.load(await file.arrayBuffer()) of a valid PDF.
Load(file) == file

\* pdfDoc.save() with the default options: addDefaultPage is true, so a
\* document with no pages is saved with one blank page.
Save(pdfDoc) == IF Len(pdfDoc) = 0 THEN <<BlankPage>> ELSE pdfDoc

\* mergedPdf.copyPages(pdf, indices): copies of the pages at the 0-based
\* indices, in the order of the indices; pdf is left as it is.
CopyPagesFirstOnly(pdf, indices) == [k \in 1..Len(indices) |-> pdf[1]]
CopyPages(pdf, indices) == [k \in 1..Len(indices) |-> pdf[indices[k] + 1]]

\* pdf.getPageIndices(): 0 .. pageCount-1
GetPageIndicesButLast(pdf) == [k \in 1..(Len(pdf) - 1) |-> k - 1]
GetPageIndices(pdf) == [k \in 1..Len(pdf) |-> k - 1]

\* pdfDoc.addPage(page): appended at the end.
AddPageFirst(pdfDoc, page) == <<page>> \o pdfDoc
AddPage(pdfDoc, page) == Append(pdfDoc, page)

\* pdfDoc.removePage(index) on a document where 0 <= index < pageCount.
RemoveAt(pdfDoc, index) ==
    [k \in 1..(Len(pdfDoc) - 1) |-> IF k <= index THEN pdfDoc[k] ELSE pdfDoc[k + 1]]

\* The error removePage throws when index is not a page of the document
\* (also when the document has no pages).
RemovePageError == "pdf-lib: index out of range"

(***************************************************************************)
(* deletePages (pdfProcessor.ts 204-219)                                   *)
(***************************************************************************)
RECURSIVE InsertDesc(_, _)
InsertDesc(x, s) ==
    IF s = <<>> THEN <<x>>
    ELSE IF Head(s) >= x THEN <<Head(s)>> \o InsertDesc(x, Tail(s))
    ELSE <<x>> \o s

\* pagesToDelete.sort((a, b) => b - a): descending, equal values kept.
RECURSIVE SortDescending(_)
SortDescending(s) ==
    IF s = <<>> THEN <<>>
    ELSE InsertDesc(s[Len(s)], SortDescending(SubSeq(s, 1, Len(s) - 1)))

\* sortedPages.forEach(pageIndex => { if (in range) pdfDoc.removePage(pageIndex) })
\* totalPages is the page count read before the loop; removePage checks the
\* index against the page count the document has when it is called.
RECURSIVE RemoveEach(_, _, _)
RemoveEach(pdfDoc, sortedPages, totalPages) ==
    IF sortedPages = <<>> THEN [thrown |-> FALSE, pdfDoc |-> pdfDoc]
    ELSE LET pageIndex == Head(sortedPages) IN
         IF pageIndex >= 0 /\ pageIndex < totalPages
         THEN IF pageIndex > Len(pdfDoc) - 1
              THEN [thrown |-> TRUE, pdfDoc |-> pdfDoc]
              ELSE RemoveEach(RemoveAt(pdfDoc, pageIndex), Tail(sortedPages), totalPages)
         ELSE RemoveEach(pdfDoc, Tail(sortedPages), totalPages)

DeletePagesOutcome(file, pagesToDelete) ==
    LET pdfDoc == Load(file)
        totalPages == Len(pdfDoc)
        sortedPages == SortDescending(pagesToDelete)
        r == RemoveEach(pdfDoc, sortedPages, totalPages)
    IN IF r.thrown THEN Rejected(RemovePageError)
       ELSE Resolved(Save(r.pdfDoc))

\* A call deletePages(file, pagesToDelete); the arguments are drawn once no
\* call is in progress.
DeletePages ==
    /\ call = Idle
    /\ \E file \in Docs, pagesToDelete \in SeqUpTo(-1..MaxPages, MaxDelete) :
          /\ call' = [op |-> "deletePages", file |-> file,
                      pagesToDelete |-> pagesToDelete]
          /\ outcome' = DeletePagesOutcome(file, pagesToDelete)
          /\ callerArray' = SortDescending(pagesToDelete)
    /\ UNCHANGED <<consoleLog, saved, htmlVars>>

(***************************************************************************)
(* mergePdfs (pdfProcessor.ts 86-98)                                       *)
(***************************************************************************)
\* copiedPages.forEach((page) => mergedPdf.addPage(page))
RECURSIVE AddAll(_, _)
AddAll(mergedPdf, copiedPages) ==
    IF copiedPages = <<>> THEN mergedPdf
    ELSE AddAll(AddPage(mergedPdf, Head(copiedPages)), Tail(copiedPages))

\* for (const file of files) { load; copyPages; addPage each }
RECURSIVE MergeLoop(_, _)
MergeLoop(mergedPdf, files) ==
    IF files = <<>> THEN mergedPdf
    ELSE LET pdf == Load(Head(files))
             copiedPages == CopyPages(pdf, GetPageIndices(pdf))
         IN MergeLoop(AddAll(mergedPdf, copiedPages), Tail(files))

MergePdfsOutcome(files) == Resolved(Save(MergeLoop(<<>>, files)))

MergePdfs ==
    /\ call = Idle
    /\ \E files \in SeqUpTo(Docs, MaxFiles) :
          /\ call' = [op |-> "mergePdfs", files |-> files]
          /\ outcome' = MergePdfsOutcome(files)
    /\ UNCHANGED <<callerArray, consoleLog, saved, htmlVars>>

(***************************************************************************)
(* splitPdf (pdfProcessor.ts 101-117)                                      *)
(***************************************************************************)
\* for (let i = 0; i < pageCount; i++): a new document holding a copy of
\* page i is saved and pushed.  The loaded document is carried along to
\* record what the loop leaves of it.
RECURSIVE SplitLoop(_, _, _, _)
SplitLoop(pdfDoc, i, pageCount, splitPdfs) ==
    IF i < pageCount
    THEN LET newPdf == <<>>
             copied == CopyPages(pdfDoc, <<i>>)
             copiedPage == copied[1]
         IN SplitLoop(pdfDoc, i + 1, pageCount,
                      Append(splitPdfs, Save(AddPage(newPdf, copiedPage))))
    ELSE [blobs |-> splitPdfs, pdfDoc |-> pdfDoc]

SplitPdfOutcome(file) ==
    LET pdfDoc == Load(file)
        pageCount == Len(pdfDoc)
        r == SplitLoop(pdfDoc, 0, pageCount, <<>>)
    IN [state |-> "resolved", value |-> r.blobs, pdfDoc |-> r.pdfDoc]

SplitPdf ==
    /\ call = Idle
    /\ \E file \in Docs :
          /\ call' = [op |-> "splitPdf", file |-> file]
          /\ outcome' = SplitPdfOutcome(file)
    /\ UNCHANGED <<callerArray, consoleLog, saved, htmlVars>>

(***************************************************************************)
(* Exact rational arithmetic for the JavaScript numbers of imagesToPdf and *)
(* htmlToPdf: [n, d] with d > 0, in lowest terms.  (The source computes in *)
(* IEEE doubles; the model computes the exact values the doubles round.)   *)
(***************************************************************************)
Abs(x) == IF x < 0 THEN -x ELSE x

RECURSIVE GCD(_, _)
GCD(a, b) == IF b = 0 THEN a ELSE GCD(b, a % b)

Rat(n, d) ==
    LET g == GCD(Abs(n), d) IN [n |-> n \div g, d |-> d \div g]

RInt(k) == [n |-> k, d |-> 1]
RSub(a, b) == Rat(a.n * b.d - b.n * a.d, a.d * b.d)
RMul(a, b) == Rat(a.n * b.n, a.d * b.d)
\* a / b for b > 0
RDiv(a, b) == Rat(a.n * b.d, a.d * b.n)
RLt(a, b) == a.n * b.d < b.n * a.d
RLe(a, b) == a.n * b.d <= b.n * a.d
RGt(a, b) == RLt(b, a)
RGe(a, b) == RLe(b, a)

(***************************************************************************)
(* imagesToPdf (pdfProcessor.ts 44-83)                                     *)
(***************************************************************************)
\* file.type of the images: "image/png" and "image/jpeg", as their characters.
PngType == <<"i", "m", "a", "g", "e", "/", "p", "n", "g">>
JpegType == <<"i", "m", "a", "g", "e", "/", "j", "p", "e", "g">>
ImageTypes == {PngType, JpegType}

Images == [type : ImageTypes, width : 1..MaxDim, height : 1..MaxDim]

\* String.prototype.includes
Includes(str, sub) ==
    \E i \in 1..(Len(str) - Len(sub) + 1) : SubSeq(str, i, i + Len(sub) - 1) = sub

\* if (file.type.includes('png')) embedPng else embedJpg
EmbedFormat(type) == IF Includes(type, <<"p", "n", "g">>) THEN "png" ELSE "jpg"

\* pdfDoc.addPage() without a size: pdf-lib's default page, A4, 595.28 x 841.89.
DefaultPageSize == [width |-> Rat(59528, 100), height |-> Rat(84189, 100)]

\* The rectangle passed to page.drawImage (lines 60-78); the comparison of
\* the mutant is the wrong way round.
FitImageWrongBranch(image, pageSize) ==
    LET width == pageSize.width
        height == pageSize.height
        imageAspectRatio == RDiv(RInt(image.width), RInt(image.height))
        pageAspectRatio == RDiv(width, height)
        wide == RLt(imageAspectRatio, pageAspectRatio)
        imageWidth == IF wide THEN width ELSE RMul(height, imageAspectRatio)
        imageHeight == IF wide THEN RDiv(width, imageAspectRatio) ELSE height
    IN [x |-> RDiv(RSub(width, imageWidth), RInt(2)),
        y |-> RDiv(RSub(height, imageHeight), RInt(2)),
        width |-> imageWidth,
        height |-> imageHeight]

FitImage(image, pageSize) ==
    LET width == pageSize.width
        height == pageSize.height
        imageAspectRatio == RDiv(RInt(image.width), RInt(image.height))
        pageAspectRatio == RDiv(width, height)
        wide == RGt(imageAspectRatio, pageAspectRatio)
        imageWidth == IF wide THEN width ELSE RMul(height, imageAspectRatio)
        imageHeight == IF wide THEN RDiv(width, imageAspectRatio) ELSE height
    IN [x |-> RDiv(RSub(width, imageWidth), RInt(2)),
        y |-> RDiv(RSub(height, imageHeight), RInt(2)),
        width |-> imageWidth,
        height |-> imageHeight]

\* for (const file of files) { embed; addPage; drawImage }
RECURSIVE ImagesLoop(_, _)
ImagesLoop(pdfDoc, files) ==
    IF files = <<>> THEN pdfDoc
    ELSE LET file == Head(files)
             page == [size |-> DefaultPageSize,
                      format |-> EmbedFormat(file.type),
                      image |-> [width |-> file.width, height |-> file.height],
                      drawn |-> FitImage(file, DefaultPageSize)]
         IN ImagesLoop(AddPage(pdfDoc, page), Tail(files))

ImagesToPdfOutcome(files) == Resolved(Save(ImagesLoop(<<>>, files)))

ImagesToPdf ==
    /\ call = Idle
    /\ \E files \in SeqUpTo(Images, MaxImages) :
          /\ call' = [op |-> "imagesToPdf", files |-> files]
          /\ outcome' = ImagesToPdfOutcome(files)
    /\ UNCHANGED <<callerArray, consoleLog, saved, htmlVars>>

(***************************************************************************)
(* downloadAsZip (pdfProcessor.ts 290-299)                                 *)
(***************************************************************************)
FileNames == {"report-1.pdf", "report-2.pdf", "report-3.pdf"}
ZipNames == {"report.zip", "pages.zip"}
Blobs == {<<"p">>, <<"q">>}
ZipEntries == [blob : Blobs, filename : FileNames]

\* new JSZip(): an archive is a mapping from entry name to content.
EmptyZip == [n \in {} |-> <<>>]

\* zip.file(filename, blob): adds the entry, replacing an entry of that name.
ZipFileKeepFirst(zip, filename, blob) ==
    [n \in DOMAIN zip \cup {filename} |-> IF n \in DOMAIN zip THEN zip[n] ELSE blob]
ZipFile(zip, filename, blob) ==
    [n \in DOMAIN zip \cup {filename} |-> IF n = filename THEN blob ELSE zip[n]]

\* files.forEach(({ blob, filename }) => zip.file(filename, blob))
RECURSIVE ZipAll(_, _)
ZipAll(zip, files) ==
    IF files = <<>> THEN zip
    ELSE ZipAll(ZipFile(zip, Head(files).filename, Head(files).blob), Tail(files))

DownloadAsZip ==
    /\ call = Idle
    /\ \E files \in SeqUpTo(ZipEntries, MaxEntries), zipName \in ZipNames :
          /\ call' = [op |-> "downloadAsZip", files |-> files, zipName |-> zipName]
          /\ LET zipBlob == ZipAll(EmptyZip, files)
             IN saved' = Append(saved, [blob |-> zipBlob, name |-> zipName])
          /\ outcome' = Resolved("undefined")
    /\ UNCHANGED <<callerArray, consoleLog, htmlVars>>

(***************************************************************************)
(* Failure paths.  Every operation is an async function: a sequence of     *)
(* library calls, each of which may fail with some error.  A step is       *)
(*   "await"   a call whose promise is awaited: a rejection is thrown at   *)
(*             the await, inside the function (and inside its try block);  *)
(*   "sync"    a call that throws synchronously;                           *)
(*   "return"  `return f(...)` of a promise that is not awaited: the async *)
(*             function has returned when that promise rejects, so its own *)
(*             promise adopts the rejection and no catch block runs;       *)
(*   "event"   htmlToPdf waiting for the frame: the failure is the frame's *)
(*             error event, answered by iframe.onerror.                    *)
(* catch is the message of the Error the catch block throws ("none": the   *)
(* function has no try/catch), label what it passes to console.error.      *)
(***************************************************************************)
Step(name, kind) == [name |-> name, kind |-> kind]

Errors == {"TypeError", "Error: invalid PDF", "NetworkError"}

\* new Error('Failed to load URL') of iframe.onerror (line 269)
LoadUrlError == "Failed to load URL"

\* --- DocumentProcessor (src/unnamed/part_000) ---
wordToPdfFlow ==
    [steps |-> << Step("file.arrayBuffer", "await"),
                  Step("mammoth.extractRawText", "await"),
                  Step("file.name.replace", "sync"),
                  Step("PDFProcessor.createTextPdf", "return") >>,
     catch |-> "Failed to convert Word document",
     label |-> "Word to PDF conversion failed:"]

excelToPdfFlow ==
    [steps |-> << Step("file.arrayBuffer", "await"),
                  Step("XLSX.read", "sync"),
                  Step("XLSX.utils.sheet_to_csv", "sync"),
                  Step("file.name.replace", "sync"),
                  Step("PDFProcessor.createTextPdf", "return") >>,
     catch |-> "Failed to convert Excel document",
     label |-> "Excel to PDF conversion failed:"]

powerPointToPdfFlow ==
    [steps |-> << Step("file.name.replace", "sync"),
                  Step("PDFProcessor.createTextPdf", "return") >>,
     catch |-> "Failed to convert PowerPoint document",
     label |-> "PowerPoint to PDF conversion failed:"]

pdfToWordFlow ==
    [steps |-> << Step("new Blob", "sync") >>,
     catch |-> "Failed to convert PDF to Word",
     label |-> "PDF to Word conversion failed:"]

pdfToExcelFlow ==
    [steps |-> << Step("XLSX.utils.aoa_to_sheet", "sync"),
                  Step("XLSX.utils.book_new", "sync"),
                  Step("XLSX.utils.book_append_sheet", "sync"),
                  Step("XLSX.write", "sync"),
                  Step("new Blob", "sync") >>,
     catch |-> "Failed to convert PDF to Excel",
     label |-> "PDF to Excel conversion failed:"]

pdfToPowerPointFlow ==
    [steps |-> << Step("new Blob", "sync") >>,
     catch |-> "Failed to convert PDF to PowerPoint",
     label |-> "PDF to PowerPoint conversion failed:"]

\* --- PDFProcessor (src/src/utils/pdfProcessor.ts): no try/catch anywhere ---
Unwrapped(steps) == [steps |-> steps, catch |-> "none", label |-> "none"]

pdfToImagesFlow ==
    Unwrapped(<< Step("file.arrayBuffer", "await"),
                 Step("PDFDocument.load", "await"),
                 Step("pdfDoc.getPages", "sync"),
                 Step("canvas.getContext", "sync"),
                 Step("canvas.toBlob", "await") >>)

imagesToPdfFlow ==
    Unwrapped(<< Step("PDFDocument.create", "await"),
                 Step("file.arrayBuffer", "await"),
                 Step("pdfDoc.embedPng/embedJpg", "await"),
                 Step("page.drawImage", "sync"),
                 Step("pdfDoc.save", "await") >>)

mergePdfsFlowWrapped ==
    [steps |-> << Step("PDFDocument.create", "await"),
                  Step("file.arrayBuffer", "await"),
                  Step("PDFDocument.load", "await"),
                  Step("mergedPdf.copyPages", "await"),
                  Step("mergedPdf.addPage", "sync"),
                  Step("mergedPdf.save", "await") >>,
     catch |-> "Failed to merge PDFs",
     label |-> "PDF merge failed:"]

mergePdfsFlow ==
    Unwrapped(<< Step("PDFDocument.create", "await"),
                 Step("file.arrayBuffer", "await"),
                 Step("PDFDocument.load", "await"),
                 Step("mergedPdf.copyPages", "await"),
                 Step("mergedPdf.addPage", "sync"),
                 Step("mergedPdf.save", "await") >>)

splitPdfFlow ==
    Unwrapped(<< Step("file.arrayBuffer", "await"),
                 Step("PDFDocument.load", "await"),
                 Step("PDFDocument.create", "await"),
                 Step("newPdf.copyPages", "await"),
                 Step("newPdf.addPage", "sync"),
                 Step("newPdf.save", "await") >>)

compressPdfFlow ==
    Unwrapped(<< Step("file.arrayBuffer", "await"),
                 Step("PDFDocument.load", "await"),
                 Step("pdfDoc.save", "await") >>)

rotatePdfFlow ==
    Unwrapped(<< Step("file.arrayBuffer", "await"),
                 Step("PDFDocument.load", "await"),
                 Step("page.setRotation", "sync"),
                 Step("pdfDoc.save", "await") >>)

addWatermarkFlow ==
    Unwrapped(<< Step("file.arrayBuffer", "await"),
                 Step("PDFDocument.load", "await"),
                 Step("pdfDoc.embedFont", "await"),
                 Step("page.drawText", "sync"),
                 Step("pdfDoc.save", "await") >>)

addPageNumbersFlow ==
    Unwrapped(<< Step("file.arrayBuffer", "await"),
                 Step("PDFDocument.load", "await"),
                 Step("pdfDoc.embedFont", "await"),
                 Step("page.drawText", "sync"),
                 Step("pdfDoc.save", "await") >>)

protectPdfFlow ==
    Unwrapped(<< Step("file.arrayBuffer", "await"),
                 Step("PDFDocument.load", "await"),
                 Step("pdfDoc.save", "await") >>)

deletePagesFlow ==
    Unwrapped(<< Step("file.arrayBuffer", "await"),
                 Step("PDFDocument.load", "await"),
                 Step("pdfDoc.removePage", "sync"),
                 Step("pdfDoc.save", "await") >>)

\* htmlToPdf: appendChild runs before the promise is made; the frame's error
\* event is answered by onerror; everything after the load runs in the load
\* handler's try block, whose catch block calls reject(error).
htmlToPdfFlow ==
    Unwrapped(<< Step("document.body.appendChild", "sync"),
                 Step("iframe load", "event"),
                 Step("html2canvas", "await"),
                 Step("canvas.toDataURL", "sync"),
                 Step("pdf.addImage", "sync"),
                 Step("pdf.output", "sync") >>)

createTextPdfFlow ==
    Unwrapped(<< Step("new jsPDF", "sync"),
                 Step("pdf.splitTextToSize", "sync"),
                 Step("pdf.text", "sync"),
                 Step("pdf.output", "sync") >>)

DocumentMethods ==
    {"wordToPdf", "excelToPdf", "powerPointToPdf",
     "pdfToWord", "pdfToExcel", "pdfToPowerPoint"}

PdfOperations ==
    {"pdfToImages", "imagesToPdf", "mergePdfs", "splitPdf", "compressPdf",
     "rotatePdf", "addWatermark", "addPageNumbers", "protectPdf",
     "deletePages", "htmlToPdf"}

Methods == DocumentMethods \cup PdfOperations \cup {"createTextPdf"}

Flow(m) ==
    CASE m = "wordToPdf" -> wordToPdfFlow
      [] m = "excelToPdf" -> excelToPdfFlow
      [] m = "powerPointToPdf" -> powerPointToPdfFlow
      [] m = "pdfToWord" -> pdfToWordFlow
      [] m = "pdfToExcel" -> pdfToExcelFlow
      [] m = "pdfToPowerPoint" -> pdfToPowerPointFlow
      [] m = "pdfToImages" -> pdfToImagesFlow
      [] m = "imagesToPdf" -> imagesToPdfFlow
      [] m = "mergePdfs" -> mergePdfsFlow
      [] m = "splitPdf" -> splitPdfFlow
      [] m = "compressPdf" -> compressPdfFlow
      [] m = "rotatePdf" -> rotatePdfFlow
      [] m = "addWatermark" -> addWatermarkFlow
      [] m = "addPageNumbers" -> addPageNumbersFlow
      [] m = "protectPdf" -> protectPdfFlow
      [] m = "deletePages" -> deletePagesFlow
      [] m = "htmlToPdf" -> htmlToPdfFlow
      [] m = "createTextPdf" -> createTextPdfFlow

NoFault == [at |-> 0, error |-> "none"]
Faults(m) == {NoFault} \cup [at : 1..Len(Flow(m).steps), error : Errors]

\* The body of the function up to its return or to the failing step:
\* "threw" when an error is thrown inside the body, "returned" with the
\* promise (or value) the body returns.
RunBody(flow, fault) ==
    IF fault.at = 0 THEN [how |-> "returned", promise |-> Resolved("blob")]
    ELSE LET step == flow.steps[fault.at] IN
         CASE step.kind = "return" ->
                  [how |-> "returned", promise |-> Rejected(fault.error)]
           [] step.kind = "event" ->
                  [how |-> "returned", promise |-> Rejected(LoadUrlError)]
           [] OTHER -> [how |-> "threw", error |-> fault.error]

\* The promise of the async function, and what it logs.
RunAsync(flow, fault) ==
    LET r == RunBody(flow, fault) IN
    IF r.how = "returned" THEN [outcome |-> r.promise, log |-> <<>>]
    ELSE IF flow.catch = "none" THEN [outcome |-> Rejected(r.error), log |-> <<>>]
    ELSE [outcome |-> Rejected(flow.catch),
          log |-> <<[label |-> flow.label, error |-> r.error]>>]

\* A call of method m in which the library call at fault.at fails.
Invoke ==
    /\ call = Idle
    /\ \E m \in Methods : \E fault \in Faults(m) :
          /\ call' = [op |-> m, fault |-> fault]
          /\ LET r == RunAsync(Flow(m), fault)
             IN /\ outcome' = r.outcome
                /\ consoleLog' = r.log
    /\ UNCHANGED <<callerArray, saved, htmlVars>>

(***************************************************************************)
(* htmlToPdf (pdfProcessor.ts 222-274)                                     *)
(*                                                                         *)
(* A call appends its frame to document.body and returns a promise.  The   *)
(* browser delivers load and error events to a frame while it is attached. *)
(* iframe.onload is an async function: it suspends at `await html2canvas`  *)
(* and is resumed later, whatever has happened to the frame meanwhile.     *)
(***************************************************************************)
Calls == 1..MaxCalls

\* The canvases html2canvas may hand back (the call asks for 1024 x 768).
CanvasSizes ==
    { [width |-> 1024, height |-> 768],
      [width |-> 210, height |-> 100],
      [width |-> 210, height |-> 295],
      [width |-> 210, height |-> 300],
      [width |-> 210, height |-> 590],
      [width |-> 42, height |-> 177] }

imgWidth == 210
pageHeight == 295

\* while (heightLeft >= 0) { position = heightLeft - imgHeight; addPage;
\*                           addImage at position; heightLeft -= pageHeight }
\* positions: the vertical offset of the image on each page so far.
RECURSIVE TileLoop(_, _, _)
TileLoop(heightLeft, imgHeight, positions) ==
    IF RGe(heightLeft, RInt(0))
    THEN LET position == RSub(heightLeft, imgHeight)
         IN TileLoop(RSub(heightLeft, RInt(pageHeight)), imgHeight,
                     Append(positions, position))
    ELSE positions

\* Lines 240-258: the first page draws the image at 0, then the loop.
TilePages(canvas) ==
    LET imgHeight == RDiv(RInt(canvas.height * imgWidth), RInt(canvas.width))
        position == RInt(0)
        heightLeft == RSub(imgHeight, RInt(pageHeight))
    IN [image |-> canvas,
        positions |-> TileLoop(heightLeft, imgHeight, <<position>>)]

Settled(c) == promise[c].state \in {"resolved", "rejected"}

\* resolve(v) / reject(e) of a promise: the first one settles it.
Settle(c, how) ==
    IF promise[c].state = "pending" THEN [promise EXCEPT ![c] = how] ELSE promise

\* Lines 224-231 and 272: the frame is appended, the handlers are set.
HtmlToPdf(c) ==
    /\ promise[c].state = "none"
    /\ body' = body \cup {c}
    /\ promise' = [promise EXCEPT ![c] = [state |-> "pending"]]
    /\ UNCHANGED <<handlers, removeThrew, oneShotVars>>

\* A load event of frame c: iframe.onload starts and suspends at line 234.
LoadEvent(c) ==
    /\ c \in body
    /\ handlers[c] < MaxHandlers
    /\ handlers' = [handlers EXCEPT ![c] = @ + 1]
    /\ UNCHANGED <<body, promise, removeThrew, oneShotVars>>

\* html2canvas resolves with a canvas: lines 240-260.  removeChild throws
\* when the frame is no longer a child of body; that lands in the catch
\* block, whose removeChild (line 262) throws again, out of the handler.
SnapshotDone(c, canvas) ==
    /\ handlers[c] > 0
    /\ handlers' = [handlers EXCEPT ![c] = @ - 1]
    /\ IF c \in body
       THEN /\ body' = body \ {c}
            /\ promise' = Settle(c, Resolved(TilePages(canvas)))
            /\ UNCHANGED removeThrew
       ELSE /\ removeThrew' = [removeThrew EXCEPT ![c] = TRUE]
            /\ UNCHANGED <<body, promise>>
    /\ UNCHANGED oneShotVars

\* html2canvas (or a later line of the try block) fails: lines 261-264.
SnapshotFailed(c, error) ==
    /\ handlers[c] > 0
    /\ handlers' = [handlers EXCEPT ![c] = @ - 1]
    /\ IF c \in body
       THEN /\ body' = body \ {c}
            /\ promise' = Settle(c, Rejected(error))
            /\ UNCHANGED removeThrew
       ELSE /\ removeThrew' = [removeThrew EXCEPT ![c] = TRUE]
            /\ UNCHANGED <<body, promise>>
    /\ UNCHANGED oneShotVars

\* An error event of frame c: iframe.onerror, lines 267-270.
ErrorEvent(c) ==
    /\ c \in body
    /\ body' = body \ {c}
    /\ promise' = Settle(c, Rejected(LoadUrlError))
    /\ UNCHANGED <<handlers, removeThrew, oneShotVars>>

\* The caller takes the result; the next call starts from scratch (the
\* operations share no state).
Return ==
    /\ call # Idle
    /\ call' = Idle
    /\ outcome' = NoOutcome
    /\ callerArray' = <<>>
    /\ consoleLog' = <<>>
    /\ saved' = <<>>
    /\ UNCHANGED htmlVars

(***************************************************************************)
(* Claims about deletePages, mergePdfs and splitPdf (checked under Spec).  *)
(***************************************************************************)
\* The pages of file whose 0-based index is not in the set idx, in order.
RECURSIVE KeepFrom(_, _, _)
KeepFrom(file, idx, k) ==
    IF k > Len(file) THEN <<>>
    ELSE (IF (k - 1) \in idx THEN <<>> ELSE <<file[k]>>) \o KeepFrom(file, idx, k + 1)

Range(s) == {s[k] : k \in 1..Len(s)}

\* pages(f1) ++ ... ++ pages(fn)
RECURSIVE Concat(_)
Concat(files) == IF files = <<>> THEN <<>> ELSE Head(files) \o Concat(Tail(files))

\* C1: for every list pagesToDelete (any order, repeated, negative or too
\* large values) deletePages completes without failing and its output is the
\* input with exactly the pages whose index is in pagesToDelete removed, the
\* others in their original order.
\* Stated on the inputs that leave at least one page to keep.
C1_DeletesExactlyTheGivenPages ==
    (/\ call.op = "deletePages"
     /\ KeepFrom(call.file, Range(call.pagesToDelete), 1) # <<>>) =>
        /\ outcome.state = "resolved"
        /\ outcome.value = KeepFrom(call.file, Range(call.pagesToDelete), 1)

\* C1, the case that separates the code from the claim: an index given twice.
C1_RepeatedIndexReached ==
    /\ call.op = "deletePages"
    /\ Len(call.pagesToDelete) = 2
    /\ call.pagesToDelete[1] = call.pagesToDelete[2]
    /\ call.pagesToDelete[1] \in 0..(Len(call.file) - 1)

\* C2 (as amended): mergePdfs resolves with pages(f1) ++ ... ++ pages(fn)
\* whenever that sequence has a page; when it has none (no file, or only
\* files without pages) the saved document holds one blank page.
C2_MergeIsConcatenation ==
    call.op = "mergePdfs" =>
        /\ outcome.state = "resolved"
        /\ outcome.value = (IF Concat(call.files) = <<>> THEN <<BlankPage>>
                            ELSE Concat(call.files))

\* C2 (original): the page sequence of mergePdfs(files) is the concatenation
\* of the inputs' page sequences for every list, the empty list and lists of
\* zero-page documents included.
C2_MergeIsConcatenationAlways ==
    call.op = "mergePdfs" =>
        /\ outcome.state = "resolved"
        /\ outcome.value = Concat(call.files)

C2_TwoFilesMerged ==
    /\ call.op = "mergePdfs"
    /\ Len(call.files) = 2
    /\ Len(call.files[1]) >= 2
    /\ Len(call.files[2]) >= 1
    /\ call.files[1][1] # call.files[1][2]
    /\ outcome.state = "resolved"
    /\ Len(outcome.value) = Len(call.files[1]) + Len(call.files[2])

\* w repeated n times.
RECURSIVE Power(_, _)
Power(w, n) == IF n = 0 THEN <<>> ELSE w \o Power(w, n - 1)

\* a and b are both repetitions of one page sequence (zero repetitions: empty).
CommonRoot(a, b) ==
    \E w \in Docs : \E i, j \in 0..MaxPages : a = Power(w, i) /\ b = Power(w, j)

\* C3 (as amended): for PDFs a # b, mergePdfs([b, a]) differs from
\* mergePdfs([a, b]) exactly when a and b are not both repetitions of one
\* common page sequence; in particular it differs when a and b have the same
\* number of pages.
C3_SwapDiffersUnlessCommonRoot ==
    (call.op = "mergePdfs" /\ Len(call.files) = 2 /\ call.files[1] # call.files[2]) =>
        LET a == call.files[1]
            b == call.files[2]
            swapped == MergePdfsOutcome(<<b, a>>)
        IN /\ (outcome.value # swapped.value) <=> ~CommonRoot(a, b)
           /\ Len(a) = Len(b) => outcome.value # swapped.value

\* C3 (original): for all PDFs a # b the page sequence of mergePdfs([b, a])
\* differs from that of mergePdfs([a, b]).
C3_SwapAlwaysDiffers ==
    (call.op = "mergePdfs" /\ Len(call.files) = 2 /\ call.files[1] # call.files[2]) =>
        outcome.value # MergePdfsOutcome(<<call.files[2], call.files[1]>>).value

C3_SwapDiffersReached ==
    /\ call.op = "mergePdfs"
    /\ Len(call.files) = 2
    /\ call.files[1] # call.files[2]
    /\ Len(call.files[1]) = 2
    /\ Len(call.files[2]) = 2
    /\ outcome.state = "resolved"
    /\ outcome.value # MergePdfsOutcome(<<call.files[2], call.files[1]>>).value

\* C4: splitPdf returns exactly pageCount blobs, blob i is a document whose
\* only page is a copy of page i of the input (so the blobs concatenated in
\* order give the input's page sequence), and the loaded input document is
\* left with the pages it had.
C4_SplitOnePagePerBlob ==
    call.op = "splitPdf" =>
        /\ outcome.state = "resolved"
        /\ Len(outcome.value) = Len(call.file)
        /\ \A i \in 1..Len(call.file) : outcome.value[i] = <<call.file[i]>>
        /\ Concat(outcome.value) = call.file
        /\ outcome.pdfDoc = call.file

C4_MultiPageSplit ==
    /\ call.op = "splitPdf"
    /\ Len(call.file) >= 2
    /\ call.file[1] # call.file[2]
    /\ outcome.state = "resolved"
    /\ Len(outcome.value) = Len(call.file)


(***************************************************************************)
(* Claims about imagesToPdf and downloadAsZip (checked under Spec).        *)
(***************************************************************************)
\* What C10 says of one page: the drawn rectangle fits the page and touches
\* it in at least one dimension, keeps the image's aspect ratio, is centred
\* inside the page, and the image is embedded as PNG exactly when its type
\* is image/png.
PageFitsImage(page, file) ==
    LET W == page.size.width
        H == page.size.height
        d == page.drawn
    IN /\ page.image = [width |-> file.width, height |-> file.height]
       /\ RLe(d.width, W) /\ RLe(d.height, H)
       /\ d.width = W \/ d.height = H
       /\ RMul(d.width, RInt(file.height)) = RMul(d.height, RInt(file.width))
       /\ d.x = RDiv(RSub(W, d.width), RInt(2)) /\ RGe(d.x, RInt(0))
       /\ d.y = RDiv(RSub(H, d.height), RInt(2)) /\ RGe(d.y, RInt(0))
       /\ page.format = (IF file.type = PngType THEN "png" ELSE "jpg")

\* C10 (as amended): for every list of at least one image the output has
\* exactly one page per image, in input order, each drawn as PageFitsImage
\* says; for the empty list the saved document holds one blank page.
C10_OnePagePerImageFitted ==
    call.op = "imagesToPdf" =>
        /\ outcome.state = "resolved"
        /\ IF call.files = <<>> THEN outcome.value = <<BlankPage>>
           ELSE /\ Len(outcome.value) = Len(call.files)
                /\ \A i \in 1..Len(call.files) :
                      PageFitsImage(outcome.value[i], call.files[i])

\* C10 (original): for every list of images the output has exactly one page
\* per image, in input order, each drawn as PageFitsImage says.
C10_OnePagePerImageAlways ==
    call.op = "imagesToPdf" =>
        /\ outcome.state = "resolved"
        /\ Len(outcome.value) = Len(call.files)
        /\ \A i \in 1..Len(call.files) :
              PageFitsImage(outcome.value[i], call.files[i])

\* A wide and a tall image in one call, one limited by the page's width and
\* the other by its height, one PNG and one JPEG.
C10_BothBranchesDrawn ==
    /\ call.op = "imagesToPdf"
    /\ Len(call.files) = 2
    /\ outcome.state = "resolved"
    /\ Len(outcome.value) = 2
    /\ outcome.value[1].drawn.width = DefaultPageSize.width
    /\ RLt(outcome.value[1].drawn.height, DefaultPageSize.height)
    /\ outcome.value[2].drawn.height = DefaultPageSize.height
    /\ RLt(outcome.value[2].drawn.width, DefaultPageSize.width)
    /\ outcome.value[1].format = "png"
    /\ outcome.value[2].format = "jpg"

\* The blob given with the last entry named n.
RECURSIVE LastBlob(_, _)
LastBlob(files, n) ==
    IF files[Len(files)].filename = n THEN files[Len(files)].blob
    ELSE LastBlob(SubSeq(files, 1, Len(files) - 1), n)

\* C8 (as amended): downloadAsZip triggers exactly one save, with the given
\* zipName, of one archive with exactly one entry per distinct filename of
\* the list, each holding the blob of the last list entry of that name (so
\* as many entries as the list has only when the filenames are distinct).
C8_ArchiveHoldsLastPerName ==
    call.op = "downloadAsZip" =>
        /\ Len(saved) = 1
        /\ saved[1].name = call.zipName
        /\ DOMAIN saved[1].blob = {call.files[i].filename : i \in 1..Len(call.files)}
        /\ \A n \in DOMAIN saved[1].blob : saved[1].blob[n] = LastBlob(call.files, n)
        /\ (\A i, j \in 1..Len(call.files) :
               call.files[i].filename = call.files[j].filename => i = j)
             => Cardinality(DOMAIN saved[1].blob) = Len(call.files)

\* C8 (original): the saved archive has exactly as many entries as the list
\* and each provided filename maps to the blob provided with it, also when
\* two entries have the same filename.
C8_ArchiveHoldsEveryPair ==
    call.op = "downloadAsZip" =>
        /\ Len(saved) = 1
        /\ saved[1].name = call.zipName
        /\ Cardinality(DOMAIN saved[1].blob) = Len(call.files)
        /\ \A i \in 1..Len(call.files) :
              /\ call.files[i].filename \in DOMAIN saved[1].blob
              /\ saved[1].blob[call.files[i].filename] = call.files[i].blob

\* Two entries of one name with different blobs, and a third of another name.
C8_RepeatedNameZipped ==
    /\ call.op = "downloadAsZip"
    /\ Len(call.files) = 3
    /\ call.files[1].filename = call.files[3].filename
    /\ call.files[1].blob # call.files[3].blob
    /\ call.files[2].filename # call.files[1].filename
    /\ Len(saved) = 1
    /\ Cardinality(DOMAIN saved[1].blob) = 2

(***************************************************************************)
(* Claims about failures (checked under SpecErrors).                       *)
(***************************************************************************)
FailedStep == Flow(call.op).steps[call.fault.at]

\* C5: every Document Converter method catches any internal failure, a
\* failure of createTextPdf included: the call rejects with the method's own
\* generic message and the original error is only logged.
C5_DocumentFailuresWrapped ==
    (call.op \in DocumentMethods /\ call.fault.at # 0) =>
        /\ outcome = Rejected(Flow(call.op).catch)
        /\ consoleLog = <<[label |-> Flow(call.op).label, error |-> call.fault.error]>>

\* C5, the failing case: createTextPdf's promise rejects.
C5_CreateTextPdfFailed ==
    /\ call.op = "wordToPdf"
    /\ call.fault.at # 0
    /\ FailedStep.name = "PDFProcessor.createTextPdf"

GenericMessages == {Flow(m).catch : m \in DocumentMethods}

\* C6 (as amended): no PDF Processor operation catches a failure: the call
\* rejects with the original error value and nothing is logged; the one
\* error the code makes itself is htmlToPdf's 'Failed to load URL' for the
\* frame's error event.
C6_PdfFailuresPropagate ==
    (call.op \in PdfOperations /\ call.fault.at # 0) =>
        /\ outcome.state = "rejected"
        /\ outcome.value = (IF FailedStep.kind = "event" THEN LoadUrlError
                            ELSE call.fault.error)
        /\ consoleLog = <<>>

\* C6 (original): a failure inside a PDF Processor operation is caught and
\* the call rejects with a generic 'Failed to convert X' error, never with
\* the original error value.
C6_PdfFailuresGeneric ==
    (call.op \in PdfOperations /\ call.fault.at # 0) =>
        /\ outcome.state = "rejected"
        /\ outcome.value \in GenericMessages
        /\ outcome.value # call.fault.error

C6_MergeLoadFailed ==
    /\ call.op = "mergePdfs"
    /\ call.fault.at # 0
    /\ FailedStep.name = "PDFDocument.load"
    /\ outcome = Rejected(call.fault.error)

(***************************************************************************)
(* Claims about htmlToPdf (checked under SpecHtml).                        *)
(***************************************************************************)
\* C7: for every sequence of load and error events, once the returned
\* promise has settled the frame is off the document, and no removal is
\* attempted on a frame that was already removed.
C7_FrameReleasedExactlyOnce ==
    \A c \in Calls :
        /\ Settled(c) => c \notin body
        /\ ~removeThrew[c]

\* C7, the part that holds: a settled call has released its own frame, and a
\* call that has not settled still has it.
C7_SettledIffReleased ==
    \A c \in Calls :
        /\ Settled(c) => c \notin body
        /\ promise[c].state = "pending" => c \in body

C9_ExactMultipleTiled ==
    \E c \in Calls :
        /\ promise[c].state = "resolved"
        /\ promise[c].value.image = [width |-> 210, height |-> 590]

HtmlInit ==
    /\ body = {}
    /\ promise = [c \in Calls |-> NoOutcome]
    /\ handlers = [c \in Calls |-> 0]
    /\ removeThrew = [c \in Calls |-> FALSE]

Init ==
    /\ call = Idle
    /\ outcome = NoOutcome
    /\ callerArray = <<>>
    /\ consoleLog = <<>>
    /\ saved = <<>>
    /\ HtmlInit

Next ==
    \/ DeletePages
    \/ MergePdfs
    \/ SplitPdf
    \/ ImagesToPdf
    \/ DownloadAsZip
    \/ Return

Spec == Init /\ [][Next]_vars

NextErrors ==
    \/ Invoke
    \/ Return

SpecErrors == Init /\ [][NextErrors]_vars

NextHtml ==
    \/ \E c \in Calls : HtmlToPdf(c)
    \/ \E c \in Calls : LoadEvent(c)
    \/ \E c \in Calls, canvas \in CanvasSizes : SnapshotDone(c, canvas)
    \/ \E c \in Calls, error \in Errors : SnapshotFailed(c, error)
    \/ \E c \in Calls : ErrorEvent(c)

SpecHtml == Init /\ [][NextHtml]_vars
====
